---- MODULE Spec2Model ----
(***************************************************************************)
(* HydrolixClient (custom_components/hydrolix_history/client.py): the      *)
(* bounded drop-oldest event queue, the periodic flush loop with its       *)
(* retry/backoff cycle, and the start/stop lifecycle.                      *)
(*                                                                         *)
(* The client runs on one asyncio event loop, so the code between two      *)
(* awaits is one atomic step.  Every action below is one such step: it     *)
(* starts where a coroutine is resumed (or a synchronous method is         *)
(* called) and runs to the next await (or to the return).  A step that     *)
(* resumes a coroutine from a request takes the server's reply as input.   *)
(***************************************************************************)
EXTENDS Integers, Sequences, FiniteSets, TLC

VARIABLES
    queue,        \* self._queue: the queued events, oldest first
    stats,        \* self.stats (HydrolixStats)
    running,      \* self._running
    flush_task,   \* self._flush_task: 0 is None, else the task's id
    session,      \* self._session: "None", "open" or "closed"
    batch_size,   \* self._batch_size
    fr,           \* one frame per coroutine: the flush-loop tasks and the caller of async_stop
    enqueued,     \* history: the number of enqueue calls so far; call n enqueues event n
    ev,           \* history: the step taken last, its input and what it did to a batch
    \* the objects of the synchronous functions, and the call made last on one
    entity_filter,  \* an EntityFilter: its eight lists and _has_include
    state_event,    \* a StateEvent
    client_config,  \* the constructor arguments of a HydrolixClient that ingest_url reads
    returned        \* the last call of should_record, to_dict or ingest_url and its result

\* the client's state is unaffected by the synchronous functions and their objects
pure == <<entity_filter, state_event, client_config, returned>>

vars == <<queue, stats, running, flush_task, session, batch_size, fr, enqueued, ev, pure>>

----------------------------------------------------------------------------
(* Bounds of the model *)

MaxEvents == 3        \* enqueue calls in one behaviour
MaxQueue == 2         \* the queue capacity the model is scaled to
MaxBatchSize == 2     \* batch_size is drawn from 0..MaxBatchSize
MaxTasks == 2         \* flush-loop tasks created in one behaviour

----------------------------------------------------------------------------
(* Constants of the program *)

QueueCapacity == 10000
MAX_RETRIES == 5
INITIAL_BACKOFF == 1
MAX_BACKOFF == 60
BACKOFF_FACTOR == 2

RETRYABLE_STATUS_CODES == {429, 500, 502, 503, 504}
SUCCESS_STATUS_CODES == {200, 201, 204}

Min(a, b) == IF a < b THEN a ELSE b

\* deque(maxlen=10000), scaled down to the model's bound
maxlen == Min(QueueCapacity, MaxQueue)

----------------------------------------------------------------------------
(* What the server and the transport can answer *)

\* statuses outside both sets above
OtherStatuses == {202, 401, 404, 501}
ResponseStatuses == SUCCESS_STATUS_CODES \cup RETRYABLE_STATUS_CODES \cup OtherStatuses

\* the Retry-After header: "None" is an absent header, the others its text
RetryAfterHeaders == {"None", "", "5", "120", "soon"}

\* aiohttp.ClientError subclasses: connection refused, DNS failure
ClientErrors == {"ClientConnectorError", "ClientConnectorDNSError"}
\* not aiohttp.ClientError: the ClientTimeout(total=30) of the session expires
\* with asyncio.TimeoutError; "ValueError" stands for any other exception
OtherExceptions == {"TimeoutError", "ValueError"}

NoResp == [status |-> 0, retry_after |-> "None", error |-> "none"]

\* a reply with a status; the model lets 429 alone carry the Retry-After texts
HttpResponses ==
    {[status |-> s, retry_after |-> "None", error |-> ""] : s \in ResponseStatuses}
    \cup {[status |-> 429, retry_after |-> h, error |-> ""] : h \in RetryAfterHeaders}

Failures ==
    {[status |-> 0, retry_after |-> "None", error |-> e] :
        e \in ClientErrors \cup OtherExceptions}

\* str(err): the exception's message.  The timer of the session raises
\* asyncio.TimeoutError without arguments, whose message is the empty text;
\* the other errors are taken to carry a message, written here as their name
ErrText(e) == IF e = "TimeoutError" THEN "" ELSE e

\* the outcomes of the GET of async_connect
ProbeOutcomes ==
    {[status |-> s, retry_after |-> "None", error |-> ""] : s \in {200, 401, 404}}
    \cup Failures

\* float(retry_after): the texts that parse, and their values
IsFloat(h) == h \in {"5", "120"}
FloatOf(h) == CASE h = "5" -> 5 [] h = "120" -> 120 [] OTHER -> 0

----------------------------------------------------------------------------
(* Coroutine frames *)

StopProc == 0
Tasks == 1..MaxTasks
Procs == {StopProc} \cup Tasks
ConnectProc == MaxTasks + 1     \* the caller of async_connect (the setup of the entry)

\* pc of a flush-loop task:  unborn, created, tick, probe, post, backoff, done
\* pc of async_stop's caller: idle, await_task, probe, post, backoff, closing
NewFrame(pc) ==
    [pc |-> pc,
     cancel |-> FALSE,      \* task.cancel() was called and CancelledError is not yet thrown
     awaited |-> 0,         \* async_stop: the task it awaits
     mark |-> 0,            \* async_stop: the newest record enqueued when its final flush
                            \* began (history, kept until async_stop returns)
     batch |-> <<>>,        \* _flush: batch
     attempt |-> 0,         \* _flush: attempt
     backoff |-> 0,         \* _flush: backoff
     delay |-> 0,           \* _flush: the argument of the asyncio.sleep in progress
     \* history of the batch in flight
     posts |-> 0,           \* attempts begun (self._session.post)
     sleeps |-> 0,          \* backoff sleeps begun
     nRetry |-> 0,          \* replies with a retryable status
     nTransport |-> 0,      \* attempts failed with aiohttp.ClientError
     result |-> "none"]     \* none, sending, and as the step ends: empty (the drain
                            \* found nothing), sent, dropped, cancelled

\* a frame whose batch has ended forgets the batch and its history
Settle(f) ==
    LET g == IF f.pc = "idle" THEN [f EXCEPT !.mark = 0] ELSE f
    IN  IF g.result \in {"empty", "sent", "dropped", "cancelled"}
        THEN [g EXCEPT !.batch = <<>>, !.attempt = 0, !.backoff = 0, !.delay = 0,
                       !.posts = 0, !.sleeps = 0, !.nRetry = 0, !.nTransport = 0,
                       !.result = "none"]
        ELSE g

\* the record of a step: what acted, on which reply, and for a step of _flush the
\* batch it worked on (batch, history) and what it added to the counters
Event(act, p, r, before, f, dSent, dDropped) ==
    [act |-> act, p |-> p, resp |-> r,
     before |-> before,     \* the queue before the step
     batch |-> f.batch, result |-> f.result, attempt |-> f.attempt,
     posts |-> f.posts, sleeps |-> f.sleeps,
     nRetry |-> f.nRetry, nTransport |-> f.nTransport,
     mark |-> f.mark,
     dSent |-> dSent, dDropped |-> dDropped]

Plain(act, p) == Event(act, p, NoResp, queue, NewFrame("none"), 0, 0)

----------------------------------------------------------------------------
(* The state after construction *)

\* HydrolixClient.__init__ with batch_size drawn from sizes
ClientInit(sizes) ==
    /\ queue = <<>>
    /\ stats = [events_sent |-> 0, events_dropped |-> 0, events_queued |-> 0,
                last_error |-> "None", last_sent |-> "None", connected |-> FALSE]
    /\ running = FALSE
    /\ flush_task = 0
    /\ session = "None"
    /\ batch_size \in sizes
    /\ fr = [p \in Procs \cup {ConnectProc} |->
                IF p \in Tasks THEN NewFrame("unborn") ELSE NewFrame("idle")]
    /\ enqueued = 0
    /\ ev = Plain("init", 0)

\* no call of a synchronous function is looked at
NoCall == [op |-> "none"]

Init ==
    /\ ClientInit(0..MaxBatchSize)
    /\ entity_filter = NoCall
    /\ state_event = NoCall
    /\ client_config = NoCall
    /\ returned = NoCall

----------------------------------------------------------------------------
(* enqueue *)

\* variant for C1: a deque without maxlen
DequeAppendUnbounded(q, x) == Append(q, x)

\* deque.append on a deque with maxlen: a full deque discards its leftmost item
DequeAppend(q, x) == IF Len(q) >= maxlen THEN Append(Tail(q), x) ELSE Append(q, x)

\* variant for C2: the overflow test with > for >=
EnqueueDroppedOffByOne(q, st) ==
    IF Len(q) > maxlen THEN [st EXCEPT !.events_dropped = @ + 1] ELSE st

\* variant for C19: an enqueue that records the overflow in last_error
EnqueueDroppedSetsError(q, st) ==
    IF Len(q) >= maxlen
    THEN [st EXCEPT !.events_dropped = @ + 1, !.last_error = "queue full"]
    ELSE st

\* the stats after enqueue's overflow test on the queue q
EnqueueDropped(q, st) ==
    IF Len(q) >= maxlen THEN [st EXCEPT !.events_dropped = @ + 1] ELSE st

\* variant for C3: an enqueue with backpressure, which waits for room
EnqueueWhenRoom ==
    /\ enqueued < MaxEvents
    /\ Len(queue) < maxlen
    /\ enqueued' = enqueued + 1
    /\ queue' = Append(queue, enqueued + 1)
    /\ stats' = [stats EXCEPT !.events_queued = Len(queue')]
    /\ ev' = Event("enqueue", 0, NoResp, queue, NewFrame("none"), 0, 0)
    /\ UNCHANGED <<running, flush_task, session, batch_size, fr>>
    /\ UNCHANGED pure

\* variant for C34: an enqueue that adds the record to the batch in flight
EnqueueJoinsBatch(n) ==
    /\ enqueued < n
    /\ enqueued' = enqueued + 1
    /\ IF \E p \in Procs : fr[p].batch # <<>>
       THEN /\ fr' = [p \in DOMAIN fr |->
                        IF fr[p].batch # <<>>
                        THEN [fr[p] EXCEPT !.batch = Append(@, enqueued + 1)]
                        ELSE fr[p]]
            /\ UNCHANGED <<queue, stats>>
       ELSE /\ queue' = DequeAppend(queue, enqueued + 1)
            /\ stats' = [EnqueueDropped(queue, stats) EXCEPT !.events_queued = Len(queue')]
            /\ UNCHANGED fr
    /\ ev' = Event("enqueue", 0, NoResp, queue, NewFrame("none"),
                   0, stats'.events_dropped - stats.events_dropped)
    /\ UNCHANGED <<running, flush_task, session, batch_size>>
    /\ UNCHANGED pure

\* enqueue(event): synchronous, no await; the call that enqueues event n + 1
\* is not looked at
EnqueueUpTo(n) ==
    /\ enqueued < n
    /\ enqueued' = enqueued + 1
    /\ queue' = DequeAppend(queue, enqueued + 1)
    /\ stats' = [EnqueueDropped(queue, stats) EXCEPT !.events_queued = Len(queue')]
    /\ ev' = Event("enqueue", 0, NoResp, queue, NewFrame("none"),
                   0, stats'.events_dropped - stats.events_dropped)
    /\ UNCHANGED <<running, flush_task, session, batch_size, fr>>
    /\ UNCHANGED pure

Enqueue == EnqueueUpTo(MaxEvents)

----------------------------------------------------------------------------
(* _flush, as steps of the frame p that runs it.  A world is what a step   *)
(* of _flush can change: the queue, the stats, the session, p's frame.     *)

World(p) == [q |-> queue, st |-> stats, ses |-> session, f |-> fr[p]]

Commit(act, p, r, w) ==
    /\ queue' = w.q
    /\ stats' = w.st
    /\ session' = w.ses
    /\ fr' = [fr EXCEPT ![p] = Settle(w.f)]
    /\ ev' = Event(act, p, r, queue,
                   IF w.f.result = "none"
                   THEN [NewFrame("none") EXCEPT !.mark = w.f.mark]
                   ELSE w.f,
                   w.st.events_sent - stats.events_sent,
                   w.st.events_dropped - stats.events_dropped)

HttpError(status) == "HTTP " \o ToString(status)

SetError(w, err) == [w EXCEPT !.st.last_error = err]

\* variant for C22: a flush loop that ends when a batch was dropped
AfterFlushEndsOnDrop(p, w) ==
    IF p = StopProc
    THEN IF w.ses = "open"
         THEN [w EXCEPT !.ses = "closed", !.f.pc = "closing"]
         ELSE [w EXCEPT !.f.pc = "idle"]
    ELSE [w EXCEPT !.f.pc = IF running /\ w.f.result # "dropped" THEN "tick" ELSE "done"]

\* _flush has returned to its caller.  _flush_loop tests self._running and
\* sleeps again or ends; async_stop closes the session when there is an open one.
AfterFlush(p, w) ==
    IF p = StopProc
    THEN IF w.ses = "open"
         THEN [w EXCEPT !.ses = "closed", !.f.pc = "closing"]
         ELSE [w EXCEPT !.f.pc = "idle"]
    ELSE [w EXCEPT !.f.pc = IF running THEN "tick" ELSE "done"]

\* self.stats.events_dropped += len(batch); return
DropBatch(p, w) ==
    AfterFlush(p, [w EXCEPT !.st.events_dropped = @ + Len(w.f.batch),
                            !.f.result = "dropped"])

\* the head of the for loop's body: self._session.post(...).  Without a session
\* (AttributeError) or on a closed one (RuntimeError) the call raises at once
\* and `except Exception` drops the batch.
BeginAttempt(p, w) ==
    LET w1 == [w EXCEPT !.f.posts = @ + 1]
    IN  IF w.ses = "open"
        THEN [w1 EXCEPT !.f.pc = "post"]
        ELSE DropBatch(p, SetError(w1, IF w.ses = "None" THEN "AttributeError"
                                                         ELSE "RuntimeError"))

\* variant for C7: one attempt more than _MAX_RETRIES
NextAttemptOneMore(p, w) ==
    LET w1 == [w EXCEPT !.f.attempt = @ + 1]
    IN  IF w1.f.attempt <= MAX_RETRIES THEN BeginAttempt(p, w1) ELSE DropBatch(p, w1)

\* variant for C33: `while True` for the loop over range(_MAX_RETRIES)
NextAttemptUnbounded(p, w) == BeginAttempt(p, [w EXCEPT !.f.attempt = @ + 1])

\* `continue`: the next attempt of range(_MAX_RETRIES), or the code after the loop
NextAttempt(p, w) ==
    LET w1 == [w EXCEPT !.f.attempt = @ + 1]
    IN  IF w1.f.attempt < MAX_RETRIES THEN BeginAttempt(p, w1) ELSE DropBatch(p, w1)

\* variant for C4: the drain loop with <= for <
RECURSIVE DrainLoopOffByOne(_, _)
DrainLoopOffByOne(q, batch) ==
    IF q # <<>> /\ Len(batch) <= batch_size
    THEN DrainLoopOffByOne(Tail(q), Append(batch, Head(q)))
    ELSE [q |-> q, batch |-> batch]

\* while self._queue and len(batch) < self._batch_size: batch.append(popleft())
RECURSIVE DrainLoop(_, _)
DrainLoop(q, batch) ==
    IF q # <<>> /\ Len(batch) < batch_size
    THEN DrainLoop(Tail(q), Append(batch, Head(q)))
    ELSE [q |-> q, batch |-> batch]

\* variant for C32: a drain that leaves stats.events_queued as it was
DrainStaleQueued(p, w) ==
    LET d == DrainLoop(w.q, <<>>)
    IN  IF d.batch = <<>>
        THEN AfterFlush(p, [w EXCEPT !.f.result = "empty"])
        ELSE BeginAttempt(p,
                [w EXCEPT !.q = d.q,
                          !.f.batch = d.batch,
                          !.f.attempt = 0,
                          !.f.backoff = INITIAL_BACKOFF,
                          !.f.result = "sending"])

\* _flush from the drain on
Drain(p, w) ==
    LET d == DrainLoop(w.q, <<>>)
    IN  IF d.batch = <<>>
        THEN AfterFlush(p, [w EXCEPT !.f.result = "empty"])
        ELSE BeginAttempt(p,
                [w EXCEPT !.q = d.q,
                          !.st.events_queued = Len(d.q),
                          !.f.batch = d.batch,
                          !.f.attempt = 0,
                          !.f.backoff = INITIAL_BACKOFF,
                          !.f.result = "sending"])

\* variant for C21: a flush that gives up while stats.connected is false
FlushBeginNeedsConnected(p, w) ==
    IF w.q = <<>>
    THEN AfterFlush(p, w)
    ELSE IF w.ses \in {"None", "closed"}
         THEN [w EXCEPT !.ses = "open", !.f.pc = "probe"]
         ELSE IF w.st.connected THEN Drain(p, w) ELSE AfterFlush(p, w)

\* _flush from its first line.  With no usable session it calls async_connect,
\* which creates the session and awaits the GET of the probe.
FlushBegin(p, w) ==
    IF w.q = <<>>
    THEN AfterFlush(p, w)
    ELSE IF w.ses \in {"None", "closed"}
         THEN [w EXCEPT !.ses = "open", !.f.pc = "probe"]
         ELSE Drain(p, w)

\* variant for C20: a probe that takes a status of 400 or more for a failure
ConnectOutcomeStatusChecked(st, r) ==
    IF r.error = "" /\ r.status < 400
    THEN [st |-> [st EXCEPT !.connected = TRUE], ret |-> "True"]
    ELSE [st |-> [st EXCEPT !.connected = FALSE,
                            !.last_error = IF r.error = "" THEN HttpError(r.status)
                                           ELSE ErrText(r.error)],
          ret |-> "False"]

\* async_connect from the outcome r of its GET to its return: the stats it
\* leaves and the value it returns
ConnectOutcome(st, r) ==
    IF r.error = ""
    THEN [st |-> [st EXCEPT !.connected = TRUE], ret |-> "True"]
    ELSE [st |-> [st EXCEPT !.connected = FALSE, !.last_error = ErrText(r.error)],
          ret |-> "False"]

\* variant for C37: a flush that goes on to the drain whatever the probe returned
ProbeDoneIgnoresOutcome(p, r, w) ==
    Drain(p, [w EXCEPT !.st = ConnectOutcome(w.st, r).st])

\* variant for C40: a failed probe that discards the session it opened, so
\* that the next flush probes again
ProbeDoneDropsSession(p, r, w) ==
    LET w1 == [w EXCEPT !.st = ConnectOutcome(w.st, r).st]
    IN  IF w1.st.connected
        THEN Drain(p, w1)
        ELSE [w1 EXCEPT !.ses = "None", !.f.pc = IF p = StopProc THEN "idle" ELSE "tick"]

\* async_connect resumed with the probe's outcome r, then _flush's test of
\* stats.connected
ProbeDone(p, r, w) ==
    LET w1 == [w EXCEPT !.st = ConnectOutcome(w.st, r).st]
    IN  IF w1.st.connected THEN Drain(p, w1) ELSE AfterFlush(p, w1)

\* variant for C11: the delay without the ceiling
RetryDelayUncapped(retry_after, backoff) ==
    IF retry_after \notin {"None", ""} /\ IsFloat(retry_after)
    THEN FloatOf(retry_after)
    ELSE backoff

\* delay of the sleep after a retryable status
RetryDelay(retry_after, backoff) ==
    LET delay == IF retry_after \notin {"None", ""} /\ IsFloat(retry_after)
                 THEN FloatOf(retry_after)
                 ELSE backoff
    IN  Min(delay, MAX_BACKOFF)

\* await asyncio.sleep(delay) inside the for loop
Sleep(w, delay) ==
    [w EXCEPT !.f.delay = delay, !.f.pc = "backoff", !.f.sleeps = @ + 1]

\* variant for C6: a retryable status retried at once, without the sleep
OnRetryableNoSleep(p, r, w) ==
    NextAttempt(p, [w EXCEPT !.st.last_error = HttpError(r.status), !.f.nRetry = @ + 1])

\* variant for C35: a retryable status taken as the loss of the connection
OnRetryableDisconnects(p, r, w) ==
    Sleep([w EXCEPT !.st.last_error = HttpError(r.status), !.st.connected = FALSE,
                    !.f.nRetry = @ + 1],
          RetryDelay(r.retry_after, w.f.backoff))

\* the reply has a retryable status
OnRetryable(p, r, w) ==
    Sleep([w EXCEPT !.st.last_error = HttpError(r.status), !.f.nRetry = @ + 1],
          RetryDelay(r.retry_after, w.f.backoff))

\* except aiohttp.ClientError
OnClientError(p, r, w) ==
    LET w1 == [w EXCEPT !.st.connected = FALSE,
                        !.st.last_error = ErrText(r.error),
                        !.f.nTransport = @ + 1]
    IN  IF w.f.attempt < MAX_RETRIES - 1
        THEN Sleep(w1, w.f.backoff)
        ELSE DropBatch(p, w1)

\* variant for C5: a success counted as one event
OnSuccessCountsOne(p, r, w) ==
    AfterFlush(p, [w EXCEPT !.st.events_sent = @ + 1,
                            !.st.last_sent = "now",
                            !.st.connected = TRUE,
                            !.f.result = "sent"])

\* the reply has a status of (200, 201, 204)
OnSuccess(p, r, w) ==
    AfterFlush(p, [w EXCEPT !.st.events_sent = @ + Len(w.f.batch),
                            !.st.last_sent = "now",
                            !.st.connected = TRUE,
                            !.f.result = "sent"])

\* variant for C8: every 5xx status taken as retryable
AttemptDoneRetry5xx(p, r, w) ==
    IF r.error = ""
    THEN IF r.status \in SUCCESS_STATUS_CODES
         THEN OnSuccess(p, r, w)
         ELSE IF r.status \in RETRYABLE_STATUS_CODES \/ r.status >= 500
              THEN OnRetryable(p, r, w)
              ELSE DropBatch(p, SetError(w, HttpError(r.status)))
    ELSE IF r.error \in ClientErrors
         THEN OnClientError(p, r, w)
         ELSE DropBatch(p, SetError(w, ErrText(r.error)))

\* variant for C39: every exception of the POST handled as a client error
AttemptDoneRetriesAll(p, r, w) ==
    IF r.error = ""
    THEN IF r.status \in SUCCESS_STATUS_CODES
         THEN OnSuccess(p, r, w)
         ELSE IF r.status \in RETRYABLE_STATUS_CODES
              THEN OnRetryable(p, r, w)
              ELSE DropBatch(p, SetError(w, HttpError(r.status)))
    ELSE OnClientError(p, r, w)

\* the attempt resumed with the reply r
AttemptDone(p, r, w) ==
    IF r.error = ""
    THEN IF r.status \in SUCCESS_STATUS_CODES
         THEN OnSuccess(p, r, w)
         ELSE IF r.status \in RETRYABLE_STATUS_CODES
              THEN OnRetryable(p, r, w)
              ELSE DropBatch(p, SetError(w, HttpError(r.status)))
    ELSE IF r.error \in ClientErrors
         THEN OnClientError(p, r, w)
         ELSE DropBatch(p, SetError(w, ErrText(r.error)))

\* variant for C12: the backoff grown by addition
BackoffDoneAdditive(p, w) ==
    NextAttempt(p, [w EXCEPT !.f.backoff = Min(@ + BACKOFF_FACTOR, MAX_BACKOFF),
                             !.f.delay = 0])

\* variant for C13: the batch rebuilt from the queue before a retry
BackoffDoneRedrain(p, w) ==
    NextAttempt(p, [w EXCEPT !.f.backoff = Min(@ * BACKOFF_FACTOR, MAX_BACKOFF),
                             !.f.delay = 0,
                             !.f.batch = @ \o w.q,
                             !.q = <<>>])

\* asyncio.sleep(delay) has returned: backoff = min(backoff * factor, max); continue
BackoffDone(p, w) ==
    NextAttempt(p, [w EXCEPT !.f.backoff = Min(@ * BACKOFF_FACTOR, MAX_BACKOFF),
                             !.f.delay = 0])

----------------------------------------------------------------------------
(* Steps of a frame *)

\* async_connect inside _flush is resumed with the outcome of its GET
ProbeReply(p) ==
    /\ fr[p].pc = "probe"
    /\ ~fr[p].cancel
    /\ \E r \in ProbeOutcomes : Commit("probe", p, r, ProbeDone(p, r, World(p)))
    /\ UNCHANGED <<running, flush_task, batch_size, enqueued>>
    /\ UNCHANGED pure

\* _flush is resumed with the outcome of its POST
PostReply(p) ==
    /\ fr[p].pc = "post"
    /\ ~fr[p].cancel
    /\ \E r \in HttpResponses \cup Failures :
          Commit("post", p, r, AttemptDone(p, r, World(p)))
    /\ UNCHANGED <<running, flush_task, batch_size, enqueued>>
    /\ UNCHANGED pure

\* variant for C18: a backoff sleep that a cancellation does not interrupt
WakeShielded(p) ==
    /\ fr[p].pc = "backoff"
    /\ Commit("wake", p, NoResp, BackoffDone(p, World(p)))
    /\ UNCHANGED <<running, flush_task, batch_size, enqueued>>
    /\ UNCHANGED pure

\* _flush is resumed from the sleep before a retry
Wake(p) ==
    /\ fr[p].pc = "backoff"
    /\ ~fr[p].cancel
    /\ Commit("wake", p, NoResp, BackoffDone(p, World(p)))
    /\ UNCHANGED <<running, flush_task, batch_size, enqueued>>
    /\ UNCHANGED pure

\* _flush_loop: the task's first step reaches asyncio.sleep(batch_interval)
TaskBegin(t) ==
    /\ fr[t].pc = "created"
    /\ ~fr[t].cancel
    /\ fr' = [fr EXCEPT ![t].pc = IF running THEN "tick" ELSE "done"]
    /\ ev' = Plain("begin", t)
    /\ UNCHANGED <<queue, stats, running, flush_task, session, batch_size, enqueued>>
    /\ UNCHANGED pure

\* _flush_loop: the interval has elapsed, _flush is called
Tick(t) ==
    /\ fr[t].pc = "tick"
    /\ ~fr[t].cancel
    /\ Commit("tick", t, NoResp, FlushBegin(t, World(t)))
    /\ UNCHANGED <<running, flush_task, batch_size, enqueued>>
    /\ UNCHANGED pure

\* CancelledError is thrown into the task at its await; no handler of _flush
\* catches it and _flush_loop breaks
Cancelled(t) ==
    /\ fr[t].cancel
    /\ fr[t].pc \in {"created", "tick", "probe", "post", "backoff"}
    /\ LET f == [fr[t] EXCEPT !.pc = "done", !.cancel = FALSE,
                              !.result = IF fr[t].batch # <<>> THEN "cancelled" ELSE @]
       IN  Commit("cancelled", t, NoResp, [World(t) EXCEPT !.f = f])
    /\ UNCHANGED <<running, flush_task, batch_size, enqueued>>
    /\ UNCHANGED pure

----------------------------------------------------------------------------
(* async_start, async_stop *)

Created == {t \in Tasks : fr[t].pc # "unborn"}

\* The callers of the repository (async_setup_entry, async_unload_entry) await
\* each lifecycle call before the next: async_start is not called while an
\* async_stop or the async_connect of the setup is suspended, and async_stop
\* not while another call is.
NoStopInProgress == fr[StopProc].pc = "idle" /\ fr[ConnectProc].pc = "idle"

\* async_connect called by the setup of the entry, before async_start, up to
\* the await of its GET
async_connect ==
    /\ NoStopInProgress
    /\ ~running
    /\ Created = {}
    /\ session' = IF session \in {"None", "closed"} THEN "open" ELSE session
    /\ fr' = [fr EXCEPT ![ConnectProc].pc = "connect"]
    /\ ev' = Plain("connect", ConnectProc)
    /\ UNCHANGED <<queue, stats, running, flush_task, batch_size, enqueued>>
    /\ UNCHANGED pure

\* async_connect resumed with the outcome of its GET, and its return
ConnectReturn ==
    /\ fr[ConnectProc].pc = "connect"
    /\ \E r \in ProbeOutcomes :
          LET c == ConnectOutcome(stats, r)
          IN  /\ stats' = c.st
              /\ ev' = Event("connect_return", ConnectProc, r, queue,
                             [NewFrame("none") EXCEPT !.result = c.ret], 0, 0)
    /\ fr' = [fr EXCEPT ![ConnectProc].pc = "idle"]
    /\ UNCHANGED <<queue, running, flush_task, session, batch_size, enqueued>>
    /\ UNCHANGED pure

\* variant for C14: async_start without the `if self._running: return`
async_startUnguarded ==
    /\ NoStopInProgress
    /\ Cardinality(Created) < MaxTasks
    /\ LET t == Cardinality(Created) + 1
       IN  /\ running' = TRUE
           /\ flush_task' = t
           /\ fr' = [fr EXCEPT ![t].pc = "created"]
    /\ ev' = Plain("start", 0)
    /\ UNCHANGED <<queue, stats, session, batch_size, enqueued>>
    /\ UNCHANGED pure

\* async_start, whenever it is called: synchronous up to its return
StartCall ==
    /\ IF running
       THEN /\ ev' = Plain("start", 0)
            /\ UNCHANGED <<queue, stats, running, flush_task, session,
                           batch_size, fr, enqueued>>
       ELSE /\ Cardinality(Created) < MaxTasks
            /\ LET t == Cardinality(Created) + 1
               IN  /\ running' = TRUE
                   /\ flush_task' = t
                   /\ fr' = [fr EXCEPT ![t].pc = "created"]
            /\ ev' = Plain("start", 0)
            /\ UNCHANGED <<queue, stats, session, batch_size, enqueued>>
    /\ UNCHANGED pure

\* async_start as the setup of the entry calls it
async_start == NoStopInProgress /\ StartCall

\* task.cancel(): no effect on a task that is done
CancelTask(f, t) ==
    IF t # 0 /\ f[t].pc # "done" THEN [f EXCEPT ![t].cancel = TRUE] ELSE f

\* async_stop up to its first await: of the cancelled task, or inside the final flush
async_stop ==
    /\ NoStopInProgress
    /\ running' = FALSE
    /\ IF flush_task # 0 /\ fr[flush_task].pc # "done"
       THEN /\ fr' = [CancelTask(fr, flush_task) EXCEPT
                         ![StopProc].pc = "await_task",
                         ![StopProc].awaited = flush_task]
            /\ ev' = Plain("stop", StopProc)
            /\ UNCHANGED <<queue, stats, session, flush_task>>
       ELSE /\ flush_task' = 0
            /\ Commit("stop", StopProc, NoResp,
                      FlushBegin(StopProc, [World(StopProc) EXCEPT !.f.mark = enqueued]))
    /\ UNCHANGED <<batch_size, enqueued>>
    /\ UNCHANGED pure

\* variant for C15: async_stop going on without awaiting the cancelled task
StopResumeEarly ==
    /\ fr[StopProc].pc = "await_task"
    /\ flush_task' = 0
    /\ Commit("stop", StopProc, NoResp,
              FlushBegin(StopProc, [World(StopProc) EXCEPT !.f.awaited = 0,
                                                           !.f.mark = enqueued]))
    /\ UNCHANGED <<running, batch_size, enqueued>>
    /\ UNCHANGED pure

\* async_stop resumed when the awaited task has ended: self._flush_task = None,
\* then the final flush
StopResume ==
    /\ fr[StopProc].pc = "await_task"
    /\ fr[fr[StopProc].awaited].pc = "done"
    /\ flush_task' = 0
    /\ Commit("stop", StopProc, NoResp,
              FlushBegin(StopProc, [World(StopProc) EXCEPT !.f.awaited = 0,
                                                           !.f.mark = enqueued]))
    /\ UNCHANGED <<running, batch_size, enqueued>>
    /\ UNCHANGED pure

\* async_stop resumed after session.close(): self._session = None
StopClosed ==
    /\ fr[StopProc].pc = "closing"
    /\ session' = "None"
    /\ fr' = [fr EXCEPT ![StopProc].pc = "idle", ![StopProc].mark = 0]
    /\ ev' = [Plain("closed", StopProc) EXCEPT !.mark = fr[StopProc].mark]
    /\ UNCHANGED <<queue, stats, running, flush_task, batch_size, enqueued>>
    /\ UNCHANGED pure

----------------------------------------------------------------------------

Next ==
    \/ Enqueue
    \/ async_connect
    \/ ConnectReturn
    \/ async_start
    \/ async_stop
    \/ StopResume
    \/ StopClosed
    \/ \E t \in Tasks : TaskBegin(t) \/ Tick(t) \/ Cancelled(t)
    \/ \E p \in Procs : ProbeReply(p) \/ PostReply(p) \/ Wake(p)

Spec == Init /\ [][Next]_vars

----------------------------------------------------------------------------
(* The claims.  ev describes the step that led to the current state, so a   *)
(* state predicate over ev and the state is a statement about every step.  *)

Finished(p) == fr[p].batch = <<>> /\ fr[p].pc \notin {"post", "backoff"}

\* C1: in every reachable state the queue holds at most its capacity.
C1_QueueWithinCapacity == Len(queue) <= maxlen /\ maxlen <= QueueCapacity

\* an enqueue has just met a full queue, and the queue is still at capacity
C1_Witness ==
    ev.act = "enqueue" /\ Len(ev.before) = maxlen /\ Len(queue) = maxlen

\* C2: enqueue on a queue at capacity removes exactly the oldest record, appends
\* the new one as the newest, keeps the length and counts one drop; enqueue on
\* a shorter queue removes nothing and counts no drop.
C2_EnqueueDropsOldest ==
    ev.act = "enqueue" =>
        IF Len(ev.before) = maxlen
        THEN /\ queue = Append(Tail(ev.before), enqueued)
             /\ Len(queue) = maxlen
             /\ ev.dDropped = 1
        ELSE /\ Len(ev.before) < maxlen
             /\ queue = Append(ev.before, enqueued)
             /\ ev.dDropped = 0

\* event 3 was enqueued on the full queue <<1, 2>>: event 1 is gone
C2_Witness ==
    /\ ev.act = "enqueue"
    /\ Len(ev.before) = maxlen
    /\ Head(ev.before) = 1
    /\ Head(queue) = 2
    /\ queue[Len(queue)] = enqueued
    /\ stats.events_dropped = 1

\* C3: enqueue can be taken, as one step, in every state of the client: no
\* state of the loop, of a batch in flight, of the queue or of the lifecycle
\* makes it wait or fail.
C3_EnqueueNeverBlocked == enqueued < MaxEvents => ENABLED Enqueue

\* an enqueue after async_stop, while the batch of the final flush waits in backoff
C3_Witness ==
    /\ ev.act = "enqueue"
    /\ queue = Append(ev.before, enqueued)
    /\ fr[StopProc].pc = "backoff"
    /\ ~running

\* C4: a flush that reaches the drain takes min(batch_size, len(queue)) records,
\* the oldest ones, oldest first, and leaves the others in their order.
C4_DrainOldestFirst ==
    (ev.act \in {"tick", "stop", "probe"} /\ ev.result # "none") =>
        LET n == Min(batch_size, Len(ev.before))
        IN  /\ Len(ev.batch) = n
            /\ ev.batch = SubSeq(ev.before, 1, n)
            /\ queue = SubSeq(ev.before, n + 1, Len(ev.before))

\* a partial drain: one of two queued records was taken
C4_Witness ==
    /\ ev.act = "tick"
    /\ Len(ev.before) = 2
    /\ ev.batch = <<Head(ev.before)>>
    /\ queue = Tail(ev.before)

\* C5: a reply 200, 201 or 204 adds the batch size to events_sent, sets
\* last_sent and connected, leaves events_dropped alone and ends the batch.
C5_SuccessCountsBatch ==
    (ev.act = "post" /\ ev.resp.error = "" /\ ev.resp.status \in {200, 201, 204}) =>
        /\ ev.batch # <<>>
        /\ ev.dSent = Len(ev.batch)
        /\ ev.dDropped = 0
        /\ stats.last_sent # "None"
        /\ stats.connected
        /\ ev.result = "sent"
        /\ Finished(ev.p)

C5_Witness ==
    /\ ev.act = "post"
    /\ ev.resp.status = 204
    /\ Len(ev.batch) = 2
    /\ stats.events_sent = 2

\* C6: a batch answered by k retryable statuses (k <= 4) and then a success
\* has slept k times and posted k + 1 times; the success adds the batch size to
\* events_sent and no step of the batch adds to events_dropped.
C6_RetryThenSuccess ==
    /\ (ev.act = "post" /\ ev.resp.error = "" /\ ev.resp.status \in {200, 201, 204}
            /\ ev.nTransport = 0) =>
        /\ ev.nRetry <= 4
        /\ ev.sleeps = ev.nRetry
        /\ ev.posts = ev.nRetry + 1
        /\ ev.dSent = Len(ev.batch)
        /\ ev.dDropped = 0
    /\ (ev.act = "post" /\ ev.resp.error = ""
            /\ ev.resp.status \in {429, 500, 502, 503, 504} /\ ev.nTransport = 0) =>
        /\ ev.sleeps = ev.nRetry
        /\ ev.posts = ev.nRetry
        /\ ev.dSent = 0
        /\ ev.dDropped = 0

\* four retryable replies, then 200
C6_Witness ==
    /\ ev.act = "post"
    /\ ev.resp.status = 200
    /\ ev.nRetry = 4
    /\ ev.sleeps = 4
    /\ ev.posts = 5
    /\ ev.result = "sent"

\* C7: a batch answered by 5 retryable statuses is posted exactly 5 times and
\* then dropped: events_dropped grows by the batch size in one step only,
\* events_sent does not grow, and there is no sixth attempt.
C7_RetryExhaustion ==
    /\ \A p \in Procs : fr[p].posts <= 5 /\ (fr[p].nRetry = 5 => fr[p].pc = "backoff")
    /\ ev.posts <= 5
    /\ (ev.nRetry = 5 /\ ev.act = "post") =>
        ev.dDropped = 0 /\ ev.dSent = 0 /\ ev.posts = 5
    /\ (ev.nRetry = 5 /\ ev.act = "wake") =>
        /\ ev.posts = 5
        /\ ev.result = "dropped"
        /\ ev.dDropped = Len(ev.batch)
        /\ ev.dSent = 0
        /\ Finished(ev.p)

C7_Witness ==
    /\ ev.act = "wake"
    /\ ev.nRetry = 5
    /\ ev.result = "dropped"
    /\ Len(ev.batch) = 2
    /\ stats.events_dropped = 2

\* C8: a reply whose status is in neither set drops the batch on that attempt:
\* events_dropped grows by the batch size, last_error is set, the sender does
\* not sleep and makes no further attempt.
C8_OtherStatusDrops ==
    (ev.act = "post" /\ ev.resp.error = ""
        /\ ev.resp.status \notin {200, 201, 204} \cup {429, 500, 502, 503, 504}) =>
        /\ ev.result = "dropped"
        /\ ev.dDropped = Len(ev.batch)
        /\ ev.dSent = 0
        /\ stats.last_error = "HTTP " \o ToString(ev.resp.status)
        /\ ev.sleeps = ev.posts - 1
        /\ Finished(ev.p)

\* 501 on the second attempt
C8_Witness ==
    /\ ev.act = "post"
    /\ ev.resp.status = 501
    /\ ev.posts = 2
    /\ ev.result = "dropped"
    /\ stats.last_error = "HTTP 501"

\* C9 as claimed: a refused connection, a DNS failure and a timeout all mark
\* the client disconnected and are retried with backoff; the batch is dropped
\* only by the fifth failure.
C9_TransportFailureRetried ==
    (ev.act = "post"
        /\ ev.resp.error \in {"ClientConnectorError", "ClientConnectorDNSError",
                              "TimeoutError"}) =>
        /\ ~stats.connected
        /\ IF ev.posts < 5
           THEN ev.result = "sending" /\ fr[ev.p].pc = "backoff" /\ ev.dDropped = 0
           ELSE ev.result = "dropped" /\ ev.dDropped = Len(ev.batch)

\* C10 as claimed: the step that ends a backoff sleep makes another POST
\* attempt of the same batch.
C10_BackoffThenSending ==
    ev.act = "wake" =>
        /\ ev.result = "sending"
        /\ fr[ev.p].pc = "post"
        /\ fr[ev.p].batch = ev.batch

\* C11: the sleep after a retryable status lasts the Retry-After value when
\* the header is present and parses as a number, else the current backoff
\* value, and in each case at most the ceiling of 60 seconds.
C11_RetryDelay ==
    /\ \A p \in Procs : fr[p].pc = "backoff" => fr[p].delay <= 60
    /\ (ev.act = "post" /\ ev.resp.error = ""
            /\ ev.resp.status \in {429, 500, 502, 503, 504}) =>
        /\ fr[ev.p].pc = "backoff"
        /\ fr[ev.p].delay =
              CASE ev.resp.retry_after = "5" -> 5
                [] ev.resp.retry_after = "120" -> 60
                [] OTHER -> fr[ev.p].backoff

\* Retry-After: 120 on the third attempt, when the backoff value is 4
C11_Witness ==
    /\ ev.act = "post"
    /\ ev.resp.status = 429
    /\ ev.resp.retry_after = "120"
    /\ fr[ev.p].backoff = 4
    /\ fr[ev.p].delay = 60

RECURSIVE Pow2(_)
Pow2(n) == IF n <= 0 THEN 1 ELSE 2 * Pow2(n - 1)

\* failed attempts of the batch of frame p
Failed(p) == fr[p].nRetry + fr[p].nTransport

\* C12: a batch starts with the backoff value 1; when the attempt after n
\* failed ones is made the value is min(2^n, 60), whatever the failures were
\* and whatever the delays waited (during the sleep after the n-th failure it
\* still is the value that sleep was computed from); a new batch starts at 1.
C12_BackoffDoubles ==
    /\ \A p \in Procs :
          /\ fr[p].pc = "post" => fr[p].backoff = Min(Pow2(Failed(p)), 60)
          /\ fr[p].pc = "backoff" => fr[p].backoff = Min(Pow2(Failed(p) - 1), 60)
    /\ (ev.act \in {"tick", "stop", "probe"} /\ ev.result = "sending") =>
          fr[ev.p].backoff = 1 /\ Failed(ev.p) = 0

\* the fifth attempt after two retryable statuses and two transport failures
C12_Witness ==
    \E p \in Procs :
        /\ fr[p].pc = "post"
        /\ fr[p].nRetry = 2
        /\ fr[p].nTransport = 2
        /\ fr[p].backoff = 16

\* C13: the batch of a frame is fixed at the drain: no retry and no enqueue
\* changes the records or their order while the batch is in flight.
C13_BatchFixed ==
    [][\A p \in Procs :
          (fr[p].batch # <<>> /\ fr'[p].batch # <<>>) => fr'[p].batch = fr[p].batch]_vars

\* the second attempt of batch <<1>>, drained alone with room for two, after
\* events 2 and 3 were enqueued
C13_Witness ==
    /\ ev.act = "wake"
    /\ ev.posts = 2
    /\ batch_size = 2
    /\ fr[ev.p].batch = <<1>>
    /\ queue = <<2, 3>>

\* flush-loop tasks that have been created and have not ended
Alive == {t \in Tasks : fr[t].pc \notin {"unborn", "done"}}

\* C14: while the loop is running exactly one flush task is alive and it is
\* the one the client holds; a start call made while running creates no task
\* and changes no field of the client.
C14_StartIdempotent ==
    /\ [](running => Alive = {flush_task})
    /\ [][(running /\ ev'.act = "start") =>
             UNCHANGED <<queue, stats, running, flush_task, session,
                         batch_size, fr, enqueued>>]_vars

\* a start call while the one task has a POST in flight
C14_Witness ==
    /\ ev.act = "start"
    /\ running
    /\ Alive = {flush_task}
    /\ fr[flush_task].pc = "post"

\* the last step was the return of async_stop
StopReturned ==
    /\ ev.p = StopProc
    /\ ev.act \in {"stop", "probe", "post", "wake", "closed"}
    /\ fr[StopProc].pc = "idle"

\* C15: the final flush of async_stop runs only when the cancelled task has
\* ended, the session is closed only when the final flush has finished, and
\* when async_stop returns there is no flush task, the loop is not running
\* and the session is closed and released.
C15_StopOrder ==
    /\ fr[StopProc].pc \in {"probe", "post", "backoff", "closing"} =>
          Alive = {} /\ flush_task = 0 /\ ~running
    /\ (ev.act = "stop" /\ fr[StopProc].pc # "await_task") => Alive = {}
    /\ fr[StopProc].pc = "closing" => fr[StopProc].batch = <<>>
    /\ session = "closed" => fr[StopProc].pc = "closing"
    /\ StopReturned =>
          Alive = {} /\ flush_task = 0 /\ ~running /\ session = "None"

\* async_stop returns after cancelling the task, sending a batch in the final
\* flush and closing the session
C15_Witness ==
    /\ StopReturned
    /\ ev.act = "closed"
    /\ fr[1].pc = "done"
    /\ stats.events_sent > 0
    /\ stats.events_dropped = 0

\* C16: when async_stop returns, no record that was in the queue when the
\* loop halted is still queued: the final flush has handled each of them.
C16_FinalFlushHandlesAll ==
    StopReturned => \A i \in 1..Len(queue) : queue[i] > ev.mark

\* C17: a batch that was drained is not lost when a stop is requested during
\* its send or its backoff: whenever the work on a batch ends, each of its
\* records has been counted in events_sent or in events_dropped.
C17_InFlightBatchKept ==
    (ev.batch # <<>> /\ ev.result # "sending") =>
        ev.dSent + ev.dDropped = Len(ev.batch)

\* C18: a flush task that async_stop has cancelled is suspended in one of its
\* waits, and the only step it takes from there ends it: the wait is not
\* completed, no POST attempt is begun and no counter, queue or session changes.
C18_CancelInterruptsLoop ==
    /\ [](\A t \in Tasks :
            fr[t].cancel => fr[t].pc \in {"created", "tick", "probe", "post", "backoff"})
    /\ [][\A t \in Tasks :
            (fr[t].cancel /\ fr'[t] # fr[t]) =>
                /\ ev'.act = "cancelled" /\ ev'.p = t
                /\ fr'[t].pc = "done"
                /\ ev'.posts = fr[t].posts
                /\ UNCHANGED <<queue, stats, session>>]_vars

\* the task ended by the cancellation during the backoff sleep after its
\* second POST attempt
C18_Witness ==
    /\ ev.act = "cancelled"
    /\ ev.p \in Tasks
    /\ fr[ev.p].pc = "done"
    /\ ev.batch # <<>>
    /\ ev.posts = 2
    /\ ev.sleeps = 2

\* C20: async_connect, called by the setup or from _flush, sets connected and
\* returns True on each HTTP response whatever its status; it clears
\* connected, records the error in last_error and returns False exactly when
\* the request fails or raises; the call always returns one of the two values.
C20_ProbeOutcome ==
    /\ ev.act \in {"probe", "connect_return"} =>
          IF ev.resp.error = ""
          THEN stats.connected
          ELSE ~stats.connected /\ stats.last_error = ErrText(ev.resp.error)
    /\ ev.act = "connect_return" =>
          /\ fr[ConnectProc].pc = "idle"
          /\ ev.result = IF ev.resp.error = "" THEN "True" ELSE "False"

\* the probe of the setup answered 401
C20_Witness ==
    /\ ev.act = "connect_return"
    /\ ev.resp.status = 401
    /\ ev.result = "True"
    /\ stats.connected

\* C19: each step that changes a field of the stats is a step of the flush
\* task; the producer and the other callers change none.
C19_FlushTaskSoleMutator ==
    [][stats' # stats =>
          ev'.p \in Tasks /\ ev'.act \in {"tick", "probe", "post", "wake"}]_vars

\* C19 (amended): the stats are changed by _flush run by the flush task, by
\* _flush run as the final flush of async_stop, by the async_connect of the
\* setup, which changes connected and last_error only, and by the producer's
\* enqueue, which changes events_dropped and events_queued only.
C19_StatsMutators ==
    [][stats' # stats =>
          \/ /\ ev'.act \in {"tick", "probe", "post", "wake"}
             /\ ev'.p \in Tasks
          \/ /\ ev'.act \in {"stop", "probe", "post", "wake"}
             /\ ev'.p = StopProc
          \/ /\ ev'.act = "connect_return"
             /\ stats' = [stats EXCEPT !.connected = stats'.connected,
                                       !.last_error = stats'.last_error]
          \/ /\ ev'.act = "enqueue"
             /\ stats' = [stats EXCEPT !.events_dropped = stats'.events_dropped,
                                       !.events_queued = stats'.events_queued]]_vars

\* the producer's enqueue on a full queue has counted a dropped record while
\* the flush task is alive
C19_Witness ==
    /\ ev.act = "enqueue"
    /\ Len(ev.before) = maxlen
    /\ ev.dDropped = 1
    /\ stats.events_dropped >= 1
    /\ Alive # {}

\* C21: when the probe of the setup returns False the session it opened
\* stays open and async_start can be called; the start creates the flush task,
\* and a tick that then finds records queued begins the POST of a batch
\* although connected is false.
C21_FailedProbeAdvisory ==
    /\ []((ev.act = "connect_return" /\ ev.result = "False") =>
             session = "open" /\ ~stats.connected /\ ENABLED async_start)
    /\ [][/\ (ev.act = "connect_return" /\ ev.result = "False" /\ ev'.act = "start") =>
                 running' /\ flush_task' \in Tasks /\ session' = "open"
          /\ (ev'.act = "tick" /\ queue # <<>> /\ session = "open"
                 /\ ~stats.connected /\ batch_size > 0) =>
                 /\ fr'[ev'.p].pc = "post"
                 /\ ev'.posts = 1
                 /\ ev'.batch = SubSeq(queue, 1, Min(batch_size, Len(queue)))]_vars

\* the first tick of the task posts record 1 after a probe that failed on a
\* connection error
C21_Witness ==
    /\ ev.act = "tick"
    /\ ev.p = 1
    /\ fr[1].pc = "post"
    /\ ev.batch = <<1>>
    /\ ~stats.connected
    /\ stats.last_error = "ClientConnectorError"
    /\ stats.events_dropped = 0

\* the last step was one of _flush run by a flush task, and _flush returned in it
FlushReturnedToLoop ==
    /\ ev.p \in Tasks
    /\ ev.act \in {"tick", "probe", "post", "wake"}
    /\ fr[ev.p].pc \notin {"probe", "post", "backoff"}

\* C22: when _flush returns to the flush loop, whatever the outcome of the
\* batch, the loop is running, waits for the next interval and can take its
\* next tick; a flush task ends only in a step that follows a stop request.
C22_LoopSurvivesFailures ==
    /\ [](FlushReturnedToLoop =>
             /\ running
             /\ fr[ev.p].pc = "tick"
             /\ ENABLED Tick(ev.p))
    /\ [][\A t \in Tasks :
             (fr[t].pc # "done" /\ fr'[t].pc = "done") =>
                 ~running /\ fr[t].cancel /\ ev'.act = "cancelled"]_vars

\* the loop waits for its next tick after a batch dropped on an unexpected
\* exception
C22_Witness ==
    /\ FlushReturnedToLoop
    /\ ev.act = "post"
    /\ ev.resp.error = "ValueError"
    /\ ev.result = "dropped"
    /\ running
    /\ fr[ev.p].pc = "tick"

----------------------------------------------------------------------------
(* EntityFilter (entity_filter.py).  A string is modelled as the sequence   *)
(* of its characters, so that the split at the first "." and the glob       *)
(* match are computed as the code computes them.                            *)

\* entity_id.split(".", 1)[0]: the characters before the first ".", or all of them
RECURSIVE Domain(_)
Domain(entity_id) ==
    IF entity_id = <<>> \/ Head(entity_id) = "."
    THEN <<>>
    ELSE <<Head(entity_id)>> \o Domain(Tail(entity_id))

\* fnmatch.fnmatch(name, pattern) for patterns of literals, "?" and "*"
RECURSIVE GlobMatch(_, _)
GlobMatch(name, pattern) ==
    IF pattern = <<>>
    THEN name = <<>>
    ELSE IF Head(pattern) = "*"
         THEN \/ GlobMatch(name, Tail(pattern))
              \/ name # <<>> /\ GlobMatch(Tail(name), pattern)
         ELSE /\ name # <<>>
              /\ Head(pattern) \in {"?", Head(name)}
              /\ GlobMatch(Tail(name), Tail(pattern))

\* variant for C25: _has_include computed without the device classes
EntityFilterNoClassInclude(include_domains, exclude_domains, include_entities, exclude_entities, include_entity_globs, exclude_entity_globs, include_device_classes, exclude_device_classes) ==
    [include_domains |-> include_domains, exclude_domains |-> exclude_domains,
     include_entities |-> include_entities, exclude_entities |-> exclude_entities,
     include_entity_globs |-> include_entity_globs,
     exclude_entity_globs |-> exclude_entity_globs,
     include_device_classes |-> include_device_classes,
     exclude_device_classes |-> exclude_device_classes,
     has_include |-> \/ include_domains # {}
                     \/ include_entities # {}
                     \/ include_entity_globs # {}]

\* EntityFilter.__init__.  The two glob lists are kept as sets: should_record
\* only asks whether some pattern of the list matches.
EntityFilter(include_domains, exclude_domains, include_entities, exclude_entities, include_entity_globs, exclude_entity_globs, include_device_classes, exclude_device_classes) ==
    [include_domains |-> include_domains, exclude_domains |-> exclude_domains,
     include_entities |-> include_entities, exclude_entities |-> exclude_entities,
     include_entity_globs |-> include_entity_globs,
     exclude_entity_globs |-> exclude_entity_globs,
     include_device_classes |-> include_device_classes,
     exclude_device_classes |-> exclude_device_classes,
     has_include |-> \/ include_domains # {}
                     \/ include_entities # {}
                     \/ include_entity_globs # {}
                     \/ include_device_classes # {}]

\* `if device_class`: None and the empty string are falsy
Truthy(device_class) == device_class \notin {"None", ""}

\* variant for C23: the glob exclusion tested before the entity inclusion
ShouldRecordGlobFirst(f, entity_id, device_class) ==
    LET domain == Domain(entity_id)
    IN  IF entity_id \in f.exclude_entities THEN FALSE
        ELSE IF \E pattern \in f.exclude_entity_globs : GlobMatch(entity_id, pattern)
        THEN FALSE
        ELSE IF entity_id \in f.include_entities THEN TRUE
        ELSE IF \E pattern \in f.include_entity_globs : GlobMatch(entity_id, pattern)
        THEN TRUE
        ELSE IF Truthy(device_class) /\ device_class \in f.exclude_device_classes
        THEN FALSE
        ELSE IF Truthy(device_class) /\ device_class \in f.include_device_classes
        THEN TRUE
        ELSE IF domain \in f.exclude_domains THEN FALSE
        ELSE IF domain \in f.include_domains THEN TRUE
        ELSE IF f.has_include THEN FALSE
        ELSE TRUE

\* variant for C24: the entity inclusion tested before the entity exclusion
ShouldRecordIncludeFirst(f, entity_id, device_class) ==
    LET domain == Domain(entity_id)
    IN  IF entity_id \in f.include_entities THEN TRUE
        ELSE IF entity_id \in f.exclude_entities THEN FALSE
        ELSE IF \E pattern \in f.exclude_entity_globs : GlobMatch(entity_id, pattern)
        THEN FALSE
        ELSE IF \E pattern \in f.include_entity_globs : GlobMatch(entity_id, pattern)
        THEN TRUE
        ELSE IF Truthy(device_class) /\ device_class \in f.exclude_device_classes
        THEN FALSE
        ELSE IF Truthy(device_class) /\ device_class \in f.include_device_classes
        THEN TRUE
        ELSE IF domain \in f.exclude_domains THEN FALSE
        ELSE IF domain \in f.include_domains THEN TRUE
        ELSE IF f.has_include THEN FALSE
        ELSE TRUE

\* variant for C26: an entity without device class passes the device-class inclusion
ShouldRecordAbsentClassIncluded(f, entity_id, device_class) ==
    LET domain == Domain(entity_id)
    IN  IF entity_id \in f.exclude_entities THEN FALSE
        ELSE IF entity_id \in f.include_entities THEN TRUE
        ELSE IF \E pattern \in f.exclude_entity_globs : GlobMatch(entity_id, pattern)
        THEN FALSE
        ELSE IF \E pattern \in f.include_entity_globs : GlobMatch(entity_id, pattern)
        THEN TRUE
        ELSE IF Truthy(device_class) /\ device_class \in f.exclude_device_classes
        THEN FALSE
        ELSE IF f.include_device_classes # {}
                /\ (~Truthy(device_class) \/ device_class \in f.include_device_classes)
        THEN TRUE
        ELSE IF domain \in f.exclude_domains THEN FALSE
        ELSE IF domain \in f.include_domains THEN TRUE
        ELSE IF f.has_include THEN FALSE
        ELSE TRUE

\* EntityFilter.should_record
ShouldRecord(f, entity_id, device_class) ==
    LET domain == Domain(entity_id)
    IN  IF entity_id \in f.exclude_entities THEN FALSE
        ELSE IF entity_id \in f.include_entities THEN TRUE
        ELSE IF \E pattern \in f.exclude_entity_globs : GlobMatch(entity_id, pattern)
        THEN FALSE
        ELSE IF \E pattern \in f.include_entity_globs : GlobMatch(entity_id, pattern)
        THEN TRUE
        ELSE IF Truthy(device_class) /\ device_class \in f.exclude_device_classes
        THEN FALSE
        ELSE IF Truthy(device_class) /\ device_class \in f.include_device_classes
        THEN TRUE
        ELSE IF domain \in f.exclude_domains THEN FALSE
        ELSE IF domain \in f.include_domains THEN TRUE
        ELSE IF f.has_include THEN FALSE
        ELSE TRUE

\* the values the lists of a filter are made of, and the arguments of the calls
ListedEntities == {<<"a", ".", "x">>, <<"b", ".", "y">>}
EntityIds == ListedEntities \cup {<<"a", ".", "y">>, <<"c">>}
EntityGlobs == {<<"a", ".", "*">>, <<"?", ".", "y">>}
ListedDeviceClasses == {"t"}
DeviceClasses == {"None", "t", "h"}
ListedDomains == {<<"a">>, <<"c">>}

\* a filter constructed from any eight lists, and no call made yet
FilterInit ==
    /\ ClientInit({MaxBatchSize})
    /\ entity_filter \in
          {EntityFilter(id, xd, ie, xe, ig, xg, ic, xc) :
              id \in SUBSET ListedDomains, xd \in SUBSET ListedDomains,
              ie \in SUBSET ListedEntities, xe \in SUBSET ListedEntities,
              ig \in SUBSET EntityGlobs, xg \in SUBSET EntityGlobs,
              ic \in SUBSET ListedDeviceClasses, xc \in SUBSET ListedDeviceClasses}
    /\ state_event = NoCall
    /\ client_config = NoCall
    /\ returned = NoCall

\* a call of should_record on the filter
should_record ==
    /\ \E entity_id \in EntityIds, device_class \in DeviceClasses :
          returned' = [op |-> "should_record",
                       entity_id |-> entity_id,
                       device_class |-> device_class,
                       value |-> ShouldRecord(entity_filter, entity_id, device_class)]
    /\ UNCHANGED <<queue, stats, running, flush_task, session, batch_size, fr,
                   enqueued, ev, entity_filter, state_event, client_config>>

FilterNext == should_record

FilterSpec == FilterInit /\ [][FilterNext]_vars

\* which of the rules 1 to 8 of should_record match the call made last, then
\* rule 9 (some include list is given) and rule 10 (always)
RuleMatches ==
    LET f == entity_filter
        e == returned.entity_id
        dc == returned.device_class
    IN  <<e \in f.exclude_entities,
          e \in f.include_entities,
          \E g \in f.exclude_entity_globs : GlobMatch(e, g),
          \E g \in f.include_entity_globs : GlobMatch(e, g),
          dc # "None" /\ dc \in f.exclude_device_classes,
          dc # "None" /\ dc \in f.include_device_classes,
          Domain(e) \in f.exclude_domains,
          Domain(e) \in f.include_domains,
          \/ f.include_entities # {} \/ f.include_entity_globs # {}
          \/ f.include_device_classes # {} \/ f.include_domains # {},
          TRUE>>

\* the decision of each rule: the odd ones reject, the even ones accept
RuleDecision(i) == i % 2 = 0

FirstMatch == CHOOSE i \in 1..10 : RuleMatches[i] /\ \A j \in 1..(i - 1) : ~RuleMatches[j]

\* C23: should_record returns the decision of the first rule that matches, in
\* the order exclude-entity, include-entity, exclude-glob, include-glob,
\* exclude-device-class, include-device-class, exclude-domain, include-domain,
\* reject when some include list is given, accept.
C23_FirstMatchingRule ==
    returned.op = "should_record" => returned.value = RuleDecision(FirstMatch)

\* a.x is accepted as an included entity although an exclude glob, the excluded
\* device class and the excluded domain match it too
C23_Witness ==
    /\ returned.op = "should_record"
    /\ returned.entity_id = <<"a", ".", "x">>
    /\ returned.device_class = "t"
    /\ FirstMatch = 2
    /\ RuleMatches[3] /\ RuleMatches[5] /\ RuleMatches[7]
    /\ returned.value = TRUE

\* C24: an entity_id in exclude_entities is rejected whatever the device class
\* and the other seven lists are.
C24_ExcludedEntityRejected ==
    (returned.op = "should_record"
        /\ returned.entity_id \in entity_filter.exclude_entities) =>
        returned.value = FALSE

\* a.x is rejected as an excluded entity although it is an included entity and
\* an include glob, the included device class and the included domain match it
C24_Witness ==
    /\ returned.op = "should_record"
    /\ returned.entity_id = <<"a", ".", "x">>
    /\ returned.entity_id \in entity_filter.exclude_entities
    /\ RuleMatches[2] /\ RuleMatches[4] /\ RuleMatches[6] /\ RuleMatches[8]
    /\ returned.value = FALSE

\* C25: an entity that none of the rules 1 to 8 matches is accepted when the
\* four include lists are empty and rejected when one of them is not; with
\* all eight lists empty each entity is accepted.
C25_DefaultDecision ==
    returned.op = "should_record" =>
        /\ (\A i \in 1..8 : ~RuleMatches[i]) =>
              returned.value = (/\ entity_filter.include_entities = {}
                                /\ entity_filter.include_entity_globs = {}
                                /\ entity_filter.include_device_classes = {}
                                /\ entity_filter.include_domains = {})
        /\ (\A k \in {"include_domains", "exclude_domains", "include_entities",
                      "exclude_entities", "include_entity_globs",
                      "exclude_entity_globs", "include_device_classes",
                      "exclude_device_classes"} : entity_filter[k] = {}) =>
              returned.value = TRUE

\* an entity of another class is rejected by default when the only list given
\* is include_device_classes
C25_Witness ==
    /\ returned.op = "should_record"
    /\ returned.device_class = "h"
    /\ \A i \in 1..8 : ~RuleMatches[i]
    /\ entity_filter.include_device_classes = {"t"}
    /\ entity_filter.include_entities = {}
    /\ entity_filter.include_entity_globs = {}
    /\ entity_filter.include_domains = {}
    /\ returned.value = FALSE

\* the first rule other than the two device-class rules that matches
FirstMatchNoClass ==
    CHOOSE i \in (1..10) \ {5, 6} :
        RuleMatches[i] /\ \A j \in (1..(i - 1)) \ {5, 6} : ~RuleMatches[j]

\* the lists of the filter that are not empty
Configured == {k \in DOMAIN entity_filter \ {"has_include"} : entity_filter[k] # {}}

\* C26: for an entity without device class the two device-class rules do not
\* match: the decision is that of the other rules in their order; it is a
\* rejection when only include_device_classes is given and an acceptance
\* when only exclude_device_classes is given.
C26_AbsentDeviceClass ==
    (returned.op = "should_record" /\ returned.device_class = "None") =>
        /\ returned.value = RuleDecision(FirstMatchNoClass)
        /\ Configured = {"include_device_classes"} => returned.value = FALSE
        /\ Configured = {"exclude_device_classes"} => returned.value = TRUE

\* an entity without device class is rejected when only include_device_classes
\* is given
C26_Witness ==
    /\ returned.op = "should_record"
    /\ returned.device_class = "None"
    /\ Configured = {"include_device_classes"}
    /\ returned.value = FALSE

----------------------------------------------------------------------------
(* StateEvent.to_dict and the serialisation of its record (client.py).      *)
(* A Python value is a record of its type t, its text v and, for a          *)
(* container, its items.  The text of a state is a sequence of characters.  *)

Str(text) == [t |-> "str", v |-> text, items |-> <<>>]
PyNone == [t |-> "NoneType", v |-> "None", items |-> <<>>]
Scalar(type, text) == [t |-> type, v |-> text, items |-> <<>>]
Container(type, items) == [t |-> type, v |-> "", items |-> items]

\* the result of float(text): a decimal num / 10^scale, nan, inf, or no value
\* (the null that to_dict stores when float raises)
Null == [null |-> TRUE, special |-> "", num |-> 0, scale |-> 0]
Float(num, scale) == [null |-> FALSE, special |-> "", num |-> num, scale |-> scale]
Special(name, sign) == [null |-> FALSE, special |-> name, num |-> sign, scale |-> 0]

DecimalDigits == {"0", "1", "2", "3", "4", "5", "6", "7", "8", "9"}
DigitValue(c) == CHOOSE n \in 0..9 : ToString(n) = c

\* str.strip() as float applies it
RECURSIVE StripLeft(_)
StripLeft(text) ==
    IF text # <<>> /\ Head(text) = " " THEN StripLeft(Tail(text)) ELSE text

RECURSIVE StripRight(_)
StripRight(text) ==
    IF text # <<>> /\ text[Len(text)] = " "
    THEN StripRight(SubSeq(text, 1, Len(text) - 1))
    ELSE text

\* the number the digits of text spell, its "." skipped
RECURSIVE DigitsNumber(_, _)
DigitsNumber(text, acc) ==
    IF text = <<>> THEN acc
    ELSE IF Head(text) = "." THEN DigitsNumber(Tail(text), acc)
    ELSE DigitsNumber(Tail(text), 10 * acc + DigitValue(Head(text)))

\* float(text) for texts without exponent and underscore: surrounding blanks
\* stripped, an optional sign, then nan, inf, or digits with at most one "."
ParseFloat(text) ==
    LET stripped == StripRight(StripLeft(text))
        signed == stripped # <<>> /\ Head(stripped) \in {"+", "-"}
        sign == IF stripped # <<>> /\ Head(stripped) = "-" THEN -1 ELSE 1
        body == IF signed THEN Tail(stripped) ELSE stripped
        dots == {i \in 1..Len(body) : body[i] = "."}
        digits == {i \in 1..Len(body) : body[i] \in DecimalDigits}
    IN  IF body = <<"n", "a", "n">> THEN Special("nan", 1)
        ELSE IF body = <<"i", "n", "f">> THEN Special("inf", sign)
        ELSE IF /\ digits # {}
                /\ Cardinality(dots) <= 1
                /\ Cardinality(dots) + Cardinality(digits) = Len(body)
        THEN Float(sign * DigitsNumber(body, 0),
                   IF dots = {} THEN 0 ELSE Len(body) - (CHOOSE i \in dots : TRUE))
        ELSE Null

\* the types the comprehension of to_dict keeps
KeptTypes == {"str", "int", "float", "bool", "list", "dict", "NoneType"}

\* self.attributes.get(key, "")
Get(attributes, key) ==
    IF key \in DOMAIN attributes THEN attributes[key] ELSE Str("")

\* variant for C29: a record without the parsed state
ToDictNoFloat(e) ==
    [timestamp |-> e.timestamp,
     entity_id |-> e.entity_id,
     domain |-> e.domain,
     state |-> e.state,
     old_state |-> IF e.old_state \in {"None", ""} THEN "" ELSE e.old_state,
     last_changed |-> e.last_changed,
     last_updated |-> e.last_updated,
     friendly_name |-> Get(e.attributes, "friendly_name"),
     device_class |-> Get(e.attributes, "device_class"),
     unit_of_measurement |-> Get(e.attributes, "unit_of_measurement"),
     icon |-> Get(e.attributes, "icon"),
     attributes |-> [k \in {k \in DOMAIN e.attributes : e.attributes[k].t \in KeptTypes}
                        |-> e.attributes[k]]]

\* StateEvent.to_dict
ToDict(e) ==
    [timestamp |-> e.timestamp,
     entity_id |-> e.entity_id,
     domain |-> e.domain,
     state |-> e.state,
     old_state |-> IF e.old_state \in {"None", ""} THEN "" ELSE e.old_state,
     last_changed |-> e.last_changed,
     last_updated |-> e.last_updated,
     friendly_name |-> Get(e.attributes, "friendly_name"),
     device_class |-> Get(e.attributes, "device_class"),
     unit_of_measurement |-> Get(e.attributes, "unit_of_measurement"),
     icon |-> Get(e.attributes, "icon"),
     state_float |-> ParseFloat(e.state),
     attributes |-> [k \in {k \in DOMAIN e.attributes : e.attributes[k].t \in KeptTypes}
                        |-> e.attributes[k]]]

\* what json.dumps(value, default=str) writes for a value: a tuple as a list,
\* a value of a type json does not know as the string str() gives for it
RECURSIVE Serialised(_)
Serialised(value) ==
    IF value.t \in KeptTypes \cup {"tuple"}
    THEN [t |-> IF value.t = "tuple" THEN "list" ELSE value.t,
          v |-> value.v,
          items |-> [i \in 1..Len(value.items) |-> Serialised(value.items[i])]]
    ELSE Str(value.v)

\* json.dumps(record, default=str), as the record a reader of the line gets
JsonDumps(record) ==
    [record EXCEPT !.friendly_name = Serialised(@),
                   !.device_class = Serialised(@),
                   !.unit_of_measurement = Serialised(@),
                   !.icon = Serialised(@),
                   !.attributes = [k \in DOMAIN @ |-> Serialised(@[k])]]

\* HA_TRANSFORM_SCHEMA: the names of its columns, in its order
HA_TRANSFORM_SCHEMA ==
    <<"timestamp", "entity_id", "domain", "state", "old_state", "state_float",
      "last_changed", "last_updated", "friendly_name", "device_class",
      "unit_of_measurement", "icon", "attributes">>

\* the state texts, previous states and attribute values events are made of
StateTexts ==
    {<<"2", "1">>, <<"-", "1", ".", "5">>, <<" ", "7">>, <<"1", ".">>,
     <<"o", "n">>, <<>>, <<".">>, <<"n", "a", "n">>}
OldStates == {"None", "", "off"}
Absent == [t |-> "absent", v |-> "", items |-> <<>>]
FlatKeys == {"friendly_name", "device_class", "unit_of_measurement", "icon"}
FlatValues == {Str("x"), PyNone}
Datetime == Scalar("datetime", "2024-01-01 00:00:00")
ExtraValues ==
    {Str("s"), Scalar("int", "5"), Scalar("float", "1.5"), Scalar("bool", "True"),
     PyNone, Container("list", <<Str("s")>>), Container("list", <<Datetime>>),
     Container("dict", <<Datetime>>), Datetime,
     Container("tuple", <<Scalar("int", "5")>>), Container("set", <<>>)}

\* the attribute mappings: each of the four known keys absent or given, and
\* one more key absent or given
AttributeMaps ==
    {[k \in {k \in FlatKeys : flat[k] # Absent}
              \cup (IF extra # Absent THEN {"extra"} ELSE {})
         |-> IF k = "extra" THEN extra ELSE flat[k]] :
        flat \in [FlatKeys -> FlatValues \cup {Absent}],
        extra \in ExtraValues \cup {Absent}}

StateEvents ==
    [entity_id : {"sensor.t"}, domain : {"sensor"}, state : StateTexts,
     old_state : OldStates, attributes : AttributeMaps,
     last_changed : {"2024-01-01T00:00:00+00:00"},
     last_updated : {"2024-01-01T00:00:01+00:00"},
     timestamp : {"2024-01-01T00:00:02+00:00"}]

ToDictInit ==
    /\ ClientInit({MaxBatchSize})
    /\ entity_filter = NoCall
    /\ state_event \in StateEvents
    /\ client_config = NoCall
    /\ returned = NoCall

\* event.to_dict() (client.py:235)
to_dict ==
    /\ returned' = [op |-> "to_dict", value |-> ToDict(state_event)]
    /\ UNCHANGED <<queue, stats, running, flush_task, session, batch_size, fr,
                   enqueued, ev, entity_filter, state_event, client_config>>

\* json.dumps(record, default=str) on the record of to_dict (client.py:244)
json_dumps ==
    /\ returned.op = "to_dict"
    /\ returned' = [op |-> "json.dumps", value |-> JsonDumps(returned.value)]
    /\ UNCHANGED <<queue, stats, running, flush_task, session, batch_size, fr,
                   enqueued, ev, entity_filter, state_event, client_config>>

ToDictNext == to_dict \/ json_dumps

ToDictSpec == ToDictInit /\ [][ToDictNext]_vars

\* the number a state text spells, for the texts that are numeric
NumericStates ==
    (<<"2", "1">> :> Float(21, 0)) @@ (<<"-", "1", ".", "5">> :> Float(-15, 1))
        @@ (<<" ", "7">> :> Float(7, 0)) @@ (<<"1", ".">> :> Float(1, 0))

\* C27: to_dict gives a record for each event, in which an absent previous
\* state is the empty string, each of the four known attributes is its value
\* or the empty string when absent, and state_float is the number the state
\* text spells when it is numeric and null when it is not.
C27_TransformTotal ==
    returned.op = "to_dict" =>
        /\ state_event.old_state = "None" => returned.value.old_state = ""
        /\ \A k \in FlatKeys :
              returned.value[k] = IF k \in DOMAIN state_event.attributes
                                  THEN state_event.attributes[k]
                                  ELSE Str("")
        /\ returned.value.state_float =
              IF state_event.state \in DOMAIN NumericStates
              THEN NumericStates[state_event.state]
              ELSE Null

\* a value all of whose parts, at each depth, are of the JSON types
RECURSIVE JsonTyped(_)
JsonTyped(value) ==
    /\ value.t \in {"str", "bool", "int", "float", "NoneType", "list", "dict"}
    /\ \A i \in 1..Len(value.items) : JsonTyped(value.items[i])

\* C28: the attributes of the delivered record are the entries of the event's
\* attributes whose value is of the JSON types at each depth, unchanged; the
\* other entries are left out and not turned into strings.
C28_AttributesFiltered ==
    returned.op = "json.dumps" =>
        /\ DOMAIN returned.value.attributes =
              {k \in DOMAIN state_event.attributes : JsonTyped(state_event.attributes[k])}
        /\ \A k \in DOMAIN returned.value.attributes :
              returned.value.attributes[k] = state_event.attributes[k]

\* C29: the field names of a record of to_dict are the thirteen column names
\* of HA_TRANSFORM_SCHEMA, one field for each column.
C29_FieldsAreColumns ==
    /\ Len(HA_TRANSFORM_SCHEMA) = 13
    /\ Cardinality({HA_TRANSFORM_SCHEMA[i] : i \in 1..Len(HA_TRANSFORM_SCHEMA)}) = 13
    /\ returned.op = "to_dict" =>
          DOMAIN returned.value =
              {HA_TRANSFORM_SCHEMA[i] : i \in 1..Len(HA_TRANSFORM_SCHEMA)}

\* the record of an event with a non-numeric state, no previous state and no
\* attribute
C29_Witness ==
    /\ returned.op = "to_dict"
    /\ state_event.state = <<"o", "n">>
    /\ state_event.old_state = "None"
    /\ DOMAIN state_event.attributes = {}
    /\ Cardinality(DOMAIN returned.value) = 13

----------------------------------------------------------------------------
(* HydrolixClient.ingest_url (client.py) *)

\* __init__: scheme = "https" if use_ssl else "http"; f"{scheme}://{host}"
BaseUrl(c) == (IF c.use_ssl THEN "https" ELSE "http") \o "://" \o c.host

\* variant for C30: the port of the ingest service put after the host
IngestUrlWithPort(c) ==
    LET url == BaseUrl(c) \o ":8088" \o "/ingest/event" \o "?table=" \o c.database
                   \o "." \o c.table
    IN  IF c.transform_name \notin {"None", ""}
        THEN url \o "&transform=" \o c.transform_name
        ELSE url

\* the property ingest_url; `if self._transform_name` is false for "" and None
IngestUrl(c) ==
    LET url == BaseUrl(c) \o "/ingest/event" \o "?table=" \o c.database
                   \o "." \o c.table
    IN  IF c.transform_name \notin {"None", ""}
        THEN url \o "&transform=" \o c.transform_name
        ELSE url

\* the constructor arguments the URL is made of
ClientConfigs ==
    [host : {"my-cluster.hydrolix.live", "localhost", "hdx.example:8088"},
     database : {"ha", "prod"},
     table : {"states", "t"},
     use_ssl : BOOLEAN,
     transform_name : {"", "ha_state_history", "t1"}]

UrlInit ==
    /\ ClientInit({MaxBatchSize})
    /\ entity_filter = NoCall
    /\ state_event = NoCall
    /\ client_config \in ClientConfigs
    /\ returned = NoCall

\* a read of client.ingest_url
ingest_url ==
    /\ returned' = [op |-> "ingest_url", value |-> IngestUrl(client_config)]
    /\ UNCHANGED <<queue, stats, running, flush_task, session, batch_size, fr,
                   enqueued, ev, entity_filter, state_event, client_config>>

UrlNext == ingest_url

UrlSpec == UrlInit /\ [][UrlNext]_vars

\* C30: the URL is scheme://host/ingest/event?table=database.table with the
\* scheme https when use_ssl and http when not, followed by &transform=NAME
\* exactly when the transform name is not empty; the host is the caller's
\* text, with no port added to it.
C30_IngestUrl ==
    returned.op = "ingest_url" =>
        LET c == client_config
            head == IF c.use_ssl THEN "https://" ELSE "http://"
            path == "/ingest/event?table=" \o (c.database \o ("." \o c.table))
            tail == IF c.transform_name = "" THEN "" ELSE "&transform=" \o c.transform_name
        IN  returned.value = (head \o c.host) \o (path \o tail)

\* the URL of a cluster without TLS and without transform, the host given
\* with a port
C30_Witness ==
    /\ returned.op = "ingest_url"
    /\ client_config.host = "hdx.example:8088"
    /\ ~client_config.use_ssl
    /\ client_config.transform_name = ""
    /\ returned.value = "http://hdx.example:8088/ingest/event?table=ha.states"

----------------------------------------------------------------------------
(* Conservation and frame conditions of the client                          *)

\* the records of the batches in flight in the frames of S
RECURSIVE InFlight(_)
InFlight(S) ==
    IF S = {} THEN 0
    ELSE LET p == CHOOSE x \in S : TRUE
         IN  Len(fr[p].batch) + InFlight(S \ {p})

\* C31: in every reachable state the number of records enqueued equals
\* events_sent + events_dropped + the length of the queue + the size of the
\* batch in flight.
C31_RecordConservation ==
    enqueued = stats.events_sent + stats.events_dropped + Len(queue) + InFlight(Procs)

\* C32: in every state between two steps stats.events_queued is the length
\* of the queue.
C32_QueuedIsLength == stats.events_queued = Len(queue)

\* a tick has drained one of two queued records while events_queued was 2
C32_Witness ==
    /\ ev.act = "tick"
    /\ ev.batch = <<1>>
    /\ Len(ev.before) = 2
    /\ queue = <<2>>
    /\ stats.events_queued = 1

----------------------------------------------------------------------------
(* The running flush loop under fair scheduling.  The event loop runs each  *)
(* coroutine that is ready, each asyncio.sleep returns when its delay has   *)
(* elapsed, and each request of the session ends within its                 *)
(* ClientTimeout(total=30) with a response or an exception: a step of a     *)
(* flush task that stays possible is taken.  The producer's enqueue and the *)
(* call of async_start are under no such obligation.                        *)

LiveInit ==
    /\ ClientInit(1..MaxBatchSize)
    /\ entity_filter = NoCall
    /\ state_event = NoCall
    /\ client_config = NoCall
    /\ returned = NoCall

\* a step of the flush-loop task t
TaskStep(t) == TaskBegin(t) \/ Tick(t) \/ ProbeReply(t) \/ PostReply(t) \/ Wake(t)

LiveNext ==
    \/ Enqueue
    \/ async_start
    \/ \E t \in Tasks : TaskStep(t)

\* no stop is called here, so one task at most is alive, and it is suspended
\* in exactly one await: its next step is the only step of a task that is possible
TaskFairness == WF_vars(\E t \in Tasks : TaskStep(t))

LiveSpec == LiveInit /\ [][LiveNext]_vars /\ TaskFairness

\* C33: a batch gets at most 5 POST attempts and at most 5 sleeps; the step
\* that ends the work on it has sent it or dropped it, counts each of its
\* records once and leaves the loop waiting for its next interval; and under
\* fair scheduling, whatever the replies are, each batch in flight ends:
\* again and again no batch is in flight.
C33_FlushTerminates ==
    /\ [](\A t \in Tasks : fr[t].posts <= 5 /\ fr[t].sleeps <= 5)
    /\ []((ev.act \in {"post", "wake"} /\ fr[ev.p].pc \notin {"post", "backoff"}) =>
             /\ ev.result \in {"sent", "dropped"}
             /\ ev.dSent + ev.dDropped = Len(ev.batch)
             /\ fr[ev.p].pc = "tick"
             /\ fr[ev.p].batch = <<>>)
    /\ []<>(\A t \in Tasks : fr[t].batch = <<>>)

\* a batch dropped by its fifth attempt, after two retryable statuses and
\* three transport failures
C33_Witness ==
    /\ ev.act = "post"
    /\ ev.posts = 5
    /\ ev.nRetry = 2
    /\ ev.nTransport = 3
    /\ ev.result = "dropped"
    /\ fr[ev.p].pc = "tick"
    /\ fr[ev.p].batch = <<>>

----------------------------------------------------------------------------
(* The producer and a batch in flight.  For the queue to overflow while a   *)
(* batch is in flight the producer needs one record for the batch, maxlen   *)
(* to fill the queue again and one more.                                    *)

OverflowNext ==
    \/ EnqueueUpTo(maxlen + 2)
    \/ async_start
    \/ \E t \in Tasks : TaskStep(t)

OverflowSpec == LiveInit /\ [][OverflowNext]_vars

\* the records of the sequence s grow from each one to the next
Increasing(s) == \A i \in 1..(Len(s) - 1) : s[i] < s[i + 1]

\* C34: an enqueue made while a batch is in flight changes no frame, so it
\* leaves the batch as it was, and it changes the queue alone: it appends the
\* record as the newest and, when the queue was full, removes the oldest
\* queued record; the batch in flight holds older records than the queue, and
\* batch and queue are each in enqueue order, so that the later drains, which
\* take the oldest queued records, take the records in enqueue order.
C34_EnqueueDuringFlight ==
    /\ [][(ev'.act = "enqueue" /\ \E p \in Procs : fr[p].batch # <<>>) =>
             /\ fr' = fr
             /\ queue' = IF Len(queue) = maxlen
                         THEN Append(Tail(queue), enqueued')
                         ELSE Append(queue, enqueued')]_vars
    /\ [](/\ Increasing(queue)
          /\ \A p \in Procs :
                /\ Increasing(fr[p].batch)
                /\ \A i \in 1..Len(fr[p].batch), j \in 1..Len(queue) :
                      fr[p].batch[i] < queue[j])
    /\ []((ev.act \in {"tick", "probe"} /\ ev.result = "sending") =>
             /\ ev.batch = SubSeq(ev.before, 1, Len(ev.batch))
             /\ fr[ev.p].batch = ev.batch)

\* while batch <<1>> waits in its backoff sleep and the queue is full, an
\* enqueue has evicted the oldest queued record
C34_Witness ==
    /\ ev.act = "enqueue"
    /\ Len(ev.before) = maxlen
    /\ Head(ev.before) = 2
    /\ Head(queue) = 3
    /\ queue[Len(queue)] = enqueued
    /\ \E t \in Tasks : fr[t].pc = "backoff" /\ fr[t].batch = <<1>>

----------------------------------------------------------------------------
(* Frame conditions of the stats                                            *)

\* the step to the next state is a POST attempt resumed with a response
PostAnswered == ev'.act = "post" /\ ev'.resp.error = ""

\* the step to the next state is the probe of async_connect resumed, inside
\* _flush or for the setup
ProbeEnded == ev'.act \in {"probe", "connect_return"}

\* C35: connected becomes false only in a step where a POST attempt fails
\* with a client error of the transport or where the probe fails, and true
\* only in a step where a POST is answered 200, 201 or 204 or where the probe
\* gets a response; a POST answered by another status, retryable or not, a
\* batch dropped for another cause than a transport failure, a wake-up from
\* a backoff sleep and an enqueue leave it as it was.
C35_ConnectedOnEvidence ==
    [][/\ (stats.connected /\ ~stats'.connected) =>
              \/ ev'.act = "post" /\ ev'.resp.error \in ClientErrors
              \/ ProbeEnded /\ ev'.resp.error # ""
       /\ (~stats.connected /\ stats'.connected) =>
              \/ PostAnswered /\ ev'.resp.status \in SUCCESS_STATUS_CODES
              \/ ProbeEnded /\ ev'.resp.error = ""
       /\ (PostAnswered /\ ev'.resp.status \notin SUCCESS_STATUS_CODES) =>
              stats'.connected = stats.connected
       /\ (ev'.dDropped > 0 /\ ev'.resp.error \notin ClientErrors) =>
              stats'.connected = stats.connected
       /\ ev'.act \in {"enqueue", "wake"} =>
              stats'.connected = stats.connected]_vars

\* a batch dropped on a 404 while the client is connected
C35_Witness ==
    /\ ev.act = "post"
    /\ ev.resp.status = 404
    /\ ev.result = "dropped"
    /\ ev.dDropped = Len(ev.batch)
    /\ stats.connected

\* the sensor's reading of last_error (sensor.py): None and the empty text
\* are both shown as "None"
Shown(last_error) == IF last_error \in {"None", ""} THEN "None" ELSE last_error

\* the step to the next state is one in which a request has failed: an
\* exception of the POST or of the probe, or a POST answered by a status
\* that is not a success
FailureStep ==
    \/ ev'.act \in {"post", "probe", "connect_return"} /\ ev'.resp.error # ""
    \/ PostAnswered /\ ev'.resp.status \notin SUCCESS_STATUS_CODES

C37_FailedProbeDrainsNothing ==
    /\ (ev.act \in {"tick", "stop"} /\ fr[ev.p].pc = "probe") =>
          /\ queue = ev.before
          /\ fr[ev.p].batch = <<>>
          /\ ev.posts = 0
          /\ ev.dSent = 0 /\ ev.dDropped = 0
    /\ (ev.act = "probe" /\ ev.resp.error # "") =>
          /\ queue = ev.before
          /\ queue # <<>>
          /\ stats.events_queued = Len(queue)
          /\ ev.dSent = 0 /\ ev.dDropped = 0
          /\ ev.batch = <<>> /\ fr[ev.p].batch = <<>>
          /\ ev.posts = 0 /\ fr[ev.p].posts = 0
          /\ fr[ev.p].pc \notin {"probe", "post", "backoff"}

\* the probe of the loop's flush failed with two records queued: both are
\* still queued and the loop waits for its next interval
C37_Witness ==
    /\ ev.act = "probe"
    /\ ev.resp.error = "ClientConnectorDNSError"
    /\ ev.p \in Tasks
    /\ queue = <<1, 2>>
    /\ stats.events_queued = 2
    /\ stats.events_sent = 0 /\ stats.events_dropped = 0
    /\ fr[ev.p].pc = "tick"

----------------------------------------------------------------------------
(* Start and stop without the callers' discipline: async_start is called    *)
(* at any time, also while async_stop is suspended in the await of the      *)
(* cancelled task or in its final flush.                                    *)

\* one record is enough to suspend a flush in its probe, its POST and its sleeps
RaceNext ==
    \/ EnqueueUpTo(1)
    \/ StartCall
    \/ async_stop
    \/ StopResume
    \/ StopClosed
    \/ \E t \in Tasks : TaskBegin(t) \/ Tick(t) \/ Cancelled(t)
    \/ \E p \in Procs : ProbeReply(p) \/ PostReply(p) \/ Wake(p)

RaceSpec == LiveInit /\ [][RaceNext]_vars

\* the flush-loop tasks that go on looping: alive, and not cancelled
Looping == {t \in Alive : ~fr[t].cancel}

\* C38: at most one flush-loop task goes on looping (a cancelled task that
\* has not yet ended is not counted), and while the client is marked running
\* its task reference is that task.
C38_OneTrackedLoop ==
    /\ Cardinality(Looping) <= 1
    /\ running => Looping = {flush_task}

\* C39: a POST attempt that raises an exception which is not a client error
\* of the transport ends the batch in that step: events_dropped grows by the
\* batch size and events_sent does not grow, last_error is the message of
\* the exception, connected is as it was, no sleep and no further attempt is
\* begun, and _flush returns to its caller, the loop going on to its next
\* interval and async_stop to the closing of the session.
C39_UnexpectedErrorDrops ==
    [][(ev'.act = "post" /\ ev'.resp.error \in OtherExceptions) =>
          LET p == ev'.p
          IN  /\ fr[p].batch # <<>>
              /\ ev'.batch = fr[p].batch
              /\ ev'.result = "dropped"
              /\ stats'.events_dropped = stats.events_dropped + Len(fr[p].batch)
              /\ stats'.events_sent = stats.events_sent
              /\ stats'.last_error = ErrText(ev'.resp.error)
              /\ stats'.connected = stats.connected
              /\ ev'.posts = fr[p].posts /\ ev'.sleeps = fr[p].sleeps
              /\ fr'[p].batch = <<>>
              /\ fr'[p].pc = IF p \in Tasks THEN "tick" ELSE "closing"
              /\ running' = running]_vars

\* the third attempt of a batch of two raises a ValueError while the client
\* is connected
C39_Witness ==
    /\ ev.act = "post"
    /\ ev.resp.error = "ValueError"
    /\ ev.posts = 3
    /\ ev.result = "dropped"
    /\ ev.dDropped = 2
    /\ stats.events_dropped = 2
    /\ stats.last_error = "ValueError"
    /\ stats.connected
    /\ fr[ev.p].pc = "tick"

\* the record n is in the queue
Queued(n) == \E i \in 1..Len(queue) : queue[i] = n

\* C40: while the flush loop is running, under fair scheduling of the task's
\* steps, each record that is in the queue leaves it (the loop, once started,
\* runs for good here, so this is: again and again the record is not queued),
\* and when the producer has stopped the queue becomes empty and stays empty.
C40_DeliveryProgress ==
    /\ \A n \in 1..MaxEvents : []<>(running => ~Queued(n))
    /\ <>[](running => queue = <<>>)

\* the loop has emptied the queue after the producer's last record, with
\* records sent and records dropped
C40_Witness ==
    /\ running
    /\ enqueued = MaxEvents
    /\ queue = <<>>
    /\ \A t \in Tasks : fr[t].batch = <<>>
    /\ stats.events_sent > 0
    /\ stats.events_dropped > 0

====
